---------------------------- MODULE Spec2Model ----------------------------
(***************************************************************************)
(* A model of PurePythonPhysics' statistical-mechanics pipeline:           *)
(*   particles.py      the particle engine, the rasterised frames and the  *)
(*                     BMP writer,                                         *)
(*   frames-to-avi.py  the BMP reader and the AVI muxer.                   *)
(*                                                                         *)
(* Numbers.  Python floats are modelled as fixed-point numbers with two    *)
(* decimal digits: the integer n stands for n / 100.  Sums and differences *)
(* are exact; products, quotients and the square root round to the nearest *)
(* representable number (the square root rounds down).  On the inputs of   *)
(* SpecPair every intermediate value is a multiple of 1/100, so there the  *)
(* model computes exactly what real arithmetic computes.                   *)
(***************************************************************************)
EXTENDS Integers, Sequences, FiniteSets, TLC

VARIABLES
    particles,   \* main(): the list of Particle objects (x, y, vx, vy)
    prev,        \* the particle list as it was before the last operation
    frame_num,   \* main(): the loop counter of the simulation
    angle,       \* per pair of the last pass: the angle random.uniform gave it
    frame_data,  \* main(): the pixel buffer generate_frame returned
    bmp_file,    \* the bytes of the file save_frame_as_bmp wrote
    pixel_data,  \* what read_bmp returned for that file
    pc,          \* the position in the codec round trip or in create_avi
    saved,       \* main(): the frame numbers given to save_frame_as_bmp, in order
    dir,         \* the frames directory: file name -> the bytes of the file
    frame_files, \* create_avi: the sorted list of frame file names
    frames,      \* create_avi: the pixel data read from each file
    avi,         \* the output file: whether it exists, its bytes, its position
    writes,      \* every avi.write so far: where, how long, bytes replaced
    raised       \* the error create_avi raised, "" while it has raised none

simVars == <<particles, prev, frame_num, angle>>

bmpVars == <<frame_data, bmp_file, pixel_data>>

aviVars == <<saved, dir, frame_files, frames, avi, writes, raised>>

vars == <<simVars, bmpVars, pc, aviVars>>

-----------------------------------------------------------------------------
(* Fixed-point arithmetic.                                                 *)

\* The representation of the integer n.
Fx(n) == n * 100

ONE == Fx(1)

Abs(a) == IF a < 0 THEN -a ELSE a

Sign(a) == IF a < 0 THEN -1 ELSE 1

Max(a, b) == IF a >= b THEN a ELSE b

Min(a, b) == IF a <= b THEN a ELSE b

\* a / b for b > 0, rounded to the nearest integer, halves away from zero.
RoundDiv(a, b) == Sign(a) * ((2 * Abs(a) + b) \div (2 * b))

\* The float product a * b.
Mul(a, b) == RoundDiv(a * b, ONE)

\* The float quotient a / b, b > 0.
Div(a, b) == RoundDiv(a * ONE, b)

RECURSIVE SqrtSearch(_, _, _)
SqrtSearch(n, lo, hi) ==
    IF lo >= hi THEN lo
    ELSE LET mid == (lo + hi + 1) \div 2
         IN  IF mid * mid <= n THEN SqrtSearch(n, mid, hi)
                               ELSE SqrtSearch(n, lo, mid - 1)

\* The largest r with r * r <= n.
Isqrt(n) == SqrtSearch(n, 0, 46340)

\* math.hypot(dx, dy).
Hypot(dx, dy) == Isqrt(dx * dx + dy * dy)

-----------------------------------------------------------------------------
(* particles.py: configuration constants.                                  *)

BOX_SIZE == 200

PARTICLE_RADIUS == 5

TIME_STEP == 1

NUM_FRAMES == 1000

\* The constants as fixed-point numbers.
Box == Fx(BOX_SIZE)

Radius == Fx(PARTICLE_RADIUS)

\* The distance handle_particle_collisions substitutes for a zero distance.
\* The source has 1e-6; the model takes 0.1, the smallest value for which the
\* velocities of the degenerate branch stay within TLC's 32-bit integers.  What
\* matters of it is kept: it is positive and far below 1.
EPS_DISTANCE == 10

-----------------------------------------------------------------------------
(* particles.py: class Particle.                                           *)

Particle(x, y, vx, vy) == [x |-> x, y |-> y, vx |-> vx, vy |-> vy]

\* Particle.update_position
update_position(p) ==
    [p EXCEPT !.x = p.x + p.vx * TIME_STEP, !.y = p.y + p.vy * TIME_STEP]

\* max(PARTICLE_RADIUS, min(c, BOX_SIZE - PARTICLE_RADIUS))
Clamp(c) == Max(Radius, Min(c, Box - Radius))

\* The condition of the two ifs of handle_wall_collisions.
HitsWall(c) == c - Radius < 0 \/ c + Radius > Box

\* Particle.handle_wall_collisions
handle_wall_collisions(p) ==
    LET q == IF HitsWall(p.x)
             THEN [p EXCEPT !.vx = -p.vx, !.x = Clamp(p.x)]
             ELSE p
    IN  IF HitsWall(q.y)
        THEN [q EXCEPT !.vy = -q.vy, !.y = Clamp(q.y)]
        ELSE q

-----------------------------------------------------------------------------
(* particles.py: handle_particle_collisions.                               *)

\* The values random.uniform(0, 2*pi) can be asked for here: the angles whose
\* cosine and sine are multiples of 1/100 (0, 90, 180, 270 degrees and the
\* 3-4-5 angle), as <<cos, sin>>.
Angles ==
    { <<ONE, 0>>, <<0, ONE>>, <<-ONE, 0>>, <<0, -ONE>>, <<60, 80>>, <<-80, -60>> }

\* overlap = 2 * PARTICLE_RADIUS - distance
Overlap(distance) == 2 * Radius - distance

\* Mutation of Correction: each particle is moved by the whole overlap.
CorrectionFull(n, overlap) == Mul(n, overlap)

\* n * (overlap / 2): what one particle is moved by along one axis.
Correction(n, overlap) == Mul(n, RoundDiv(overlap, 2))

\* Mutation of Separating: a projection of exactly 0 is skipped too.
SeparatingOrResting(dot) == dot >= 0

\* if dot > 0: continue
Separating(dot) == dot > 0

\* The impulse along one axis, dot * n, taken from p1 and given to p2.
Impulse(dot, n) == Mul(dot, n)

\* The body of the two loops for the pair (i, j), i < j; ang is the angle
\* random.uniform returns if this pair asks for one.
CollidePair(ps, i, j, ang) ==
    LET p1 == ps[i]
        p2 == ps[j]
        dx0 == p1.x - p2.x
        dy0 == p1.y - p2.y
        distance0 == Hypot(dx0, dy0)
    IN  IF ~(distance0 < 2 * Radius) THEN ps
        ELSE
        LET zero == distance0 = 0
            dx == IF zero THEN ang[1] ELSE dx0
            dy == IF zero THEN ang[2] ELSE dy0
            distance == IF zero THEN EPS_DISTANCE ELSE distance0
            nx == Div(dx, distance)
            ny == Div(dy, distance)
            dvx == p1.vx - p2.vx
            dvy == p1.vy - p2.vy
            dot == Mul(dvx, nx) + Mul(dvy, ny)
        IN  IF Separating(dot) THEN ps
            ELSE
            LET overlap == Overlap(distance)
                q1 == [x  |-> p1.x + Correction(nx, overlap),
                       y  |-> p1.y + Correction(ny, overlap),
                       vx |-> p1.vx - Impulse(dot, nx),
                       vy |-> p1.vy - Impulse(dot, ny)]
                q2 == [x  |-> p2.x - Correction(nx, overlap),
                       y  |-> p2.y - Correction(ny, overlap),
                       vx |-> p2.vx + Impulse(dot, nx),
                       vy |-> p2.vy + Impulse(dot, ny)]
            IN  [ps EXCEPT ![i] = q1, ![j] = q2]

\* The pairs (i, j), i < j, in the order the two loops visit them.
RECURSIVE PairsFrom(_, _, _)
PairsFrom(i, j, n) ==
    IF i > n THEN << >>
    ELSE IF j > n THEN PairsFrom(i + 1, i + 2, n)
    ELSE << <<i, j>> >> \o PairsFrom(i, j + 1, n)

PairOrder(n) == PairsFrom(1, 2, n)

RECURSIVE CollideAll(_, _, _, _)
CollideAll(ps, order, k, angs) ==
    IF k > Len(order) THEN ps
    ELSE CollideAll(CollidePair(ps, order[k][1], order[k][2], angs[k]),
                    order, k + 1, angs)

\* handle_particle_collisions(particles); angs[k] is the angle random.uniform
\* returns to the k-th pair, should that pair ask for one.
handle_particle_collisions(ps, angs) ==
    CollideAll(ps, PairOrder(Len(ps)), 1, angs)

\* The angle sequences a pass over n particles can draw.
AngleChoices(n) == [1..Len(PairOrder(n)) -> Angles]

\* No call of random.uniform.
NoAngle == <<0, 0>>

\* The angles the pass did draw: angs[k] where the k-th pair was at distance
\* zero when the loops reached it, NoAngle elsewhere.
RECURSIVE DrawnFrom(_, _, _, _)
DrawnFrom(ps, order, k, angs) ==
    IF k > Len(order) THEN << >>
    ELSE LET i == order[k][1]
             j == order[k][2]
             zero == Hypot(ps[i].x - ps[j].x, ps[i].y - ps[j].y) = 0
         IN  << IF zero THEN angs[k] ELSE NoAngle >>
             \o DrawnFrom(CollidePair(ps, i, j, angs[k]), order, k + 1, angs)

DrawnAngles(ps, angs) == DrawnFrom(ps, PairOrder(Len(ps)), 1, angs)

-----------------------------------------------------------------------------
(* Bytes: struct.pack and struct.unpack, little-endian.                    *)

\* struct.pack('<H', n)
LE16(n) == << n % 256, (n \div 256) % 256 >>

\* struct.pack('<I', n)
LE32(n) ==
    << n % 256, (n \div 256) % 256, (n \div 65536) % 256,
       (n \div 16777216) % 256 >>

\* data[a:b] of Python: the bytes at offsets a .. b - 1 that exist.
Slice(data, a, b) == SubSeq(data, a + 1, Min(b, Len(data)))

\* struct.unpack('<H', ...) and struct.unpack('<I', ...) of the bytes at offset a.
U16(data, a) == data[a + 1] + 256 * data[a + 2]

U32(data, a) ==
    data[a + 1] + 256 * data[a + 2] + 65536 * data[a + 3]
    + 16777216 * data[a + 4]

\* b'\x00' * n
Zeros(n) == [k \in 1..n |-> 0]

\* (n + 3) & ~3
RoundUp4(n) == ((n + 3) \div 4) * 4

RECURSIVE Flatten(_)
Flatten(seqs) ==
    IF seqs = << >> THEN << >> ELSE Head(seqs) \o Flatten(Tail(seqs))

-----------------------------------------------------------------------------
(* particles.py: save_frame_as_bmp.  frames-to-avi.py: read_bmp.           *)

\* The side of a frame in pixels.  The source renders frames of BOX_SIZE = 200
\* pixels a side (120,000 bytes); the codec is modelled on frames of this side,
\* whose rows (6 bytes) need padding to a multiple of 4.
ImageSide == 2

\* b'BM'
BM == << 66, 77 >>

\* The 54 bytes struct.pack('<2sIHHIIIIHHIIIIII', ...) returns for a
\* width x height image.
BmpHeader(width, height) ==
    LET image_size == (width * 3 + ((4 - ((width * 3) % 4)) % 4)) * height
    IN  BM \o LE32(54 + image_size) \o LE16(0) \o LE16(0) \o LE32(54)
        \o LE32(40) \o LE32(width) \o LE32(height) \o LE16(1) \o LE16(24)
        \o LE32(0) \o LE32(image_size) \o LE32(2835) \o LE32(2835)
        \o LE32(0) \o LE32(0)

\* The rows of data, width * 3 bytes each, each followed by its padding.
BmpRows(data, width, height) ==
    LET padded_row_size == RoundUp4(width * 3)
        padding == Zeros(padded_row_size - width * 3)
    IN  Flatten([row \in 1..height |->
            Slice(data, (row - 1) * width * 3, (row - 1) * width * 3 + width * 3)
            \o padding])

\* The bytes save_frame_as_bmp(frame_data, frame_number, output_dir) writes.
save_frame_as_bmp(data) ==
    BmpHeader(ImageSide, ImageSide) \o BmpRows(data, ImageSide, ImageSide)

\* b, g, r = row_data[i:i+3]; pixel_data += bytes([r, g, b])
ConvertPixel(bgr) == << bgr[3], bgr[2], bgr[1] >>

\* The inner loop of read_bmp over one row.
ConvertRow(row_data) ==
    Flatten([k \in 1..(Len(row_data) \div 3) |->
        ConvertPixel(Slice(row_data, 3 * (k - 1), 3 * k))])

\* read_bmp(file_path) for a file holding the bytes file: the pixel data, or
\* the ValueError it raises.
read_bmp(file) ==
    IF Slice(file, 0, 2) # BM THEN [error |-> "not a BMP file"]
    ELSE
    LET offset == U32(file, 10)
        width == U32(file, 18)
        height == U32(file, 22)
        bit_count == U16(file, 28)
        row_padded == RoundUp4(width * 3)
        raw_data == Slice(file, offset, offset + row_padded * height)
    IN  IF bit_count # 24 THEN [error |-> "not a 24-bit BMP file"]
        ELSE [data |-> Flatten([row \in 1..height |->
                 ConvertRow(Slice(raw_data, (row - 1) * row_padded,
                                  (row - 1) * row_padded + width * 3))])]

\* The colours of the frames of the model, as the three bytes of a pixel:
\* white (the background of generate_frame), b'\xFF\x00\x00' (its
\* particles), and the same bytes reversed.
Palette == { <<255, 255, 255>>, <<255, 0, 0>>, <<0, 0, 255>> }

\* The pixel buffers of width * height pixels.
Buffers(width, height) ==
    { Flatten(px) : px \in [1..(width * height) -> Palette] }

BmpIdle ==
    /\ frame_data = << >>
    /\ bmp_file = << >>
    /\ pixel_data = << >>

SimIdle ==
    /\ particles = << >>
    /\ prev = << >>
    /\ frame_num = 0
    /\ angle = << >>

\* No output file yet.
NoFile == [state |-> "absent", data |-> << >>, pos |-> 0]

AviIdle ==
    /\ saved = << >>
    /\ dir = << >>
    /\ frame_files = << >>
    /\ frames = << >>
    /\ avi = NoFile
    /\ writes = << >>
    /\ raised = ""

InitBmp ==
    /\ frame_data \in Buffers(ImageSide, ImageSide)
    /\ bmp_file = << >>
    /\ pixel_data = << >>
    /\ pc = "save"
    /\ SimIdle
    /\ AviIdle

\* main(): save_frame_as_bmp(frame_data, frame_num, FRAME_DIR)
SaveFrame ==
    /\ pc = "save"
    /\ bmp_file' = save_frame_as_bmp(frame_data)
    /\ pc' = "read"
    /\ UNCHANGED <<frame_data, pixel_data, simVars, aviVars>>

\* create_avi(): pixel_data = read_bmp(frame_path)
ReadFrame ==
    /\ pc = "read"
    /\ pixel_data' = read_bmp(bmp_file)
    /\ pc' = "decoded"
    /\ UNCHANGED <<frame_data, bmp_file, simVars, aviVars>>

NextBmp == SaveFrame \/ ReadFrame

SpecBmp == InitBmp /\ [][NextBmp]_vars

-----------------------------------------------------------------------------
(* File names.  A name is the sequence of the code points of its           *)
(* characters, which is what Python compares when it sorts strings.        *)

\* str(n)
RECURSIVE Decimal(_)
Decimal(n) ==
    IF n < 10 THEN << 48 + n >> ELSE Decimal(n \div 10) \o << 48 + (n % 10) >>

\* f"{n:04d}": the decimal digits of n, with zeros before them up to a width
\* of 4.
Format04d(n) ==
    LET d == Decimal(n)
    IN  IF Len(d) < 4 THEN [k \in 1..(4 - Len(d)) |-> 48] \o d ELSE d

\* ".bmp"
DotBmp == << 46, 98, 109, 112 >>

\* f"frame_{frame_number:04d}.bmp" (save_frame_as_bmp)
FrameFileName(frame_number) ==
    << 102, 114, 97, 109, 101, 95 >> \o Format04d(frame_number) \o DotBmp

\* "notes.txt": a file of the directory that is no frame.
NotesTxt == << 110, 111, 116, 101, 115, 46, 116, 120, 116 >>

\* str.lower, on ASCII.
Lower(name) ==
    [k \in 1..Len(name) |->
        IF 65 <= name[k] /\ name[k] <= 90 THEN name[k] + 32 ELSE name[k]]

\* f.lower().endswith('.bmp')
IsBmpName(name) ==
    /\ Len(name) >= 4
    /\ SubSeq(Lower(name), Len(name) - 3, Len(name)) = DotBmp

\* a < b for two Python strings.
RECURSIVE StrLess(_, _)
StrLess(a, b) ==
    IF a = << >> THEN b # << >>
    ELSE IF b = << >> THEN FALSE
    ELSE IF Head(a) # Head(b) THEN Head(a) < Head(b)
    ELSE StrLess(Tail(a), Tail(b))

\* sorted(names)
RECURSIVE Sorted(_)
Sorted(names) ==
    IF names = {} THEN << >>
    ELSE LET least == CHOOSE a \in names :
                          \A b \in names \ {a} : StrLess(a, b)
         IN  << least >> \o Sorted(names \ {least})

-----------------------------------------------------------------------------
(* frames-to-avi.py: create_avi.                                           *)

\* frame_rate: the default of create_avi, and what __main__ passes.
FRAME_RATE == 30

\* width = 200 and height = 200 of create_avi.
AVI_WIDTH == 200

AVI_HEIGHT == 200

Fourcc_RIFF == << 82, 73, 70, 70 >>

Fourcc_AVI == << 65, 86, 73, 32 >>

Fourcc_LIST == << 76, 73, 83, 84 >>

Fourcc_hdrl == << 104, 100, 114, 108 >>

Fourcc_avih == << 97, 118, 105, 104 >>

Fourcc_strl == << 115, 116, 114, 108 >>

Fourcc_strh == << 115, 116, 114, 104 >>

Fourcc_strf == << 115, 116, 114, 102 >>

Fourcc_vids == << 118, 105, 100, 115 >>

Fourcc_DIB == << 68, 73, 66, 32 >>

Fourcc_movi == << 109, 111, 118, 105 >>

Fourcc_00dc == << 48, 48, 100, 99 >>

Fourcc_idx1 == << 105, 100, 120, 49 >>

\* pad_to_even(data)
pad_to_even(data) == IF Len(data) % 2 # 0 THEN data \o << 0 >> ELSE data

\* avih: struct.pack('<14I', ...)
Avih(num_frames) ==
    LE32(1000000 \div FRAME_RATE)
    \o LE32(AVI_WIDTH * AVI_HEIGHT * 3 * FRAME_RATE)
    \o LE32(0) \o LE32(16) \o LE32(num_frames) \o LE32(0) \o LE32(1)
    \o LE32(AVI_WIDTH * AVI_HEIGHT * 3)
    \o LE32(AVI_WIDTH) \o LE32(AVI_HEIGHT)
    \o LE32(0) \o LE32(0) \o LE32(0) \o LE32(0)

\* strh: struct.pack('<4s4sIHHIIIIIIII16s', ...)
Strh(num_frames) ==
    Fourcc_vids \o Fourcc_DIB \o LE32(0) \o LE16(0) \o LE16(0) \o LE32(0)
    \o LE32(1) \o LE32(FRAME_RATE) \o LE32(0) \o LE32(num_frames)
    \o LE32(AVI_WIDTH * AVI_HEIGHT * 3) \o LE32(65535) \o LE32(0) \o Zeros(16)

\* strf: struct.pack('<IIIHHIIIIII', ...)
Strf ==
    LE32(40) \o LE32(AVI_WIDTH) \o LE32(AVI_HEIGHT) \o LE16(1) \o LE16(24)
    \o LE32(0) \o LE32(AVI_WIDTH * AVI_HEIGHT * 3) \o LE32(2835) \o LE32(2835)
    \o LE32(0) \o LE32(0)

\* tag + struct.pack('<I', len(data)) + data
Chunk(tag, data) == tag \o LE32(Len(data)) \o data

\* b'LIST' + struct.pack('<I', 4 + len(body)) + kind + body
List(kind, body) == Fourcc_LIST \o LE32(4 + Len(body)) \o kind \o body

HdrlList(num_frames) ==
    List(Fourcc_hdrl,
         Chunk(Fourcc_avih, Avih(num_frames))
         \o List(Fourcc_strl,
                 Chunk(Fourcc_strh, Strh(num_frames))
                 \o Chunk(Fourcc_strf, Strf)))

\* frame_chunk of the loop over the frames.
FrameChunk(frame) == pad_to_even(Chunk(Fourcc_00dc, frame))

\* struct.pack('<4sII', chunk_id, 0x10, movi_data_offset)
IdxEntry(movi_data_offset) ==
    Fourcc_00dc \o LE32(16) \o LE32(movi_data_offset)

\* Mutation of NextOffset: the offset grows by the frame's length alone.
NextOffsetBare(movi_data_offset, frame_chunk) ==
    movi_data_offset + Len(frame_chunk) - 8

\* movi_data_offset += len(frame_chunk)
NextOffset(movi_data_offset, frame_chunk) ==
    movi_data_offset + Len(frame_chunk)

\* The loop "for i, frame in enumerate(frames)" from its k-th frame on:
\* movi_list and idx_entries as they are when it ends.
RECURSIVE MoviLoop(_, _, _, _, _)
MoviLoop(fs, k, movi_list, idx_entries, movi_data_offset) ==
    IF k > Len(fs)
    THEN [movi_list |-> movi_list, idx_entries |-> idx_entries]
    ELSE LET frame_chunk == FrameChunk(fs[k])
         IN  MoviLoop(fs, k + 1, movi_list \o frame_chunk,
                      Append(idx_entries, IdxEntry(movi_data_offset)),
                      NextOffset(movi_data_offset, frame_chunk))

Movi(fs) == MoviLoop(fs, 1, Fourcc_movi, << >>, 0)

\* movi_chunk = b'LIST' + struct.pack('<I', len(movi_list)) + movi_list
MoviChunk(fs) ==
    Fourcc_LIST \o LE32(Len(Movi(fs).movi_list)) \o Movi(fs).movi_list

\* idx1_chunk
Idx1Chunk(fs) == Chunk(Fourcc_idx1, Flatten(Movi(fs).idx_entries))

\* Mutation of RiffSize: the whole length of the file.
RiffSizeWhole(tell) == tell

\* file_size = avi.tell() - 8
RiffSize(tell) == tell - 8

\* avi.write(data) at the position of the file.
Write(file, data) ==
    LET pos == file.pos
        old == file.data
        next == pos + Len(data)
    IN  [state |-> file.state,
         data  |-> SubSeq(old, 1, pos) \o data \o SubSeq(old, next + 1, Len(old)),
         pos   |-> next]

\* What the write log keeps of avi.write(data).
WriteRecord(file, data) ==
    [at   |-> file.pos,
     len  |-> Len(data),
     over |-> Max(0, Min(Len(file.data), file.pos + Len(data)) - file.pos)]

\* The names of the directory that pass the filter of create_avi.
BmpNames(d) == { name \in DOMAIN d : IsBmpName(name) }

\* Lines 69-72: list the directory, keep the .bmp names, sort them; raise if
\* none is left.
ListFrames ==
    /\ pc = "start"
    /\ frame_files' = Sorted(BmpNames(dir))
    /\ IF BmpNames(dir) = {}
       THEN raised' = "No BMP files found in the specified directory."
            /\ pc' = "raised"
       ELSE raised' = raised /\ pc' = "read"
    /\ UNCHANGED <<saved, dir, frames, avi, writes, simVars, bmpVars>>

\* Lines 74-84: read every frame; an error of read_bmp leaves create_avi.
ReadFrames ==
    /\ pc = "read"
    /\ LET got == [k \in 1..Len(frame_files) |-> read_bmp(dir[frame_files[k]])]
           bad == { k \in 1..Len(got) : "error" \in DOMAIN got[k] }
       IN  IF bad # {}
           THEN /\ raised' = got[CHOOSE k \in bad : \A m \in bad : k <= m].error
                /\ frames' = frames
                /\ pc' = "raised"
           ELSE /\ frames' = [k \in 1..Len(got) |-> got[k].data]
                /\ raised' = raised
                /\ pc' = "open"
    /\ UNCHANGED <<saved, dir, frame_files, avi, writes, simVars, bmpVars>>

\* Lines 86-221: the headers, the movi list and the index are assembled (the
\* operators above), then open(output_avi, 'wb') creates the empty file.
OpenAvi ==
    /\ pc = "open"
    /\ avi' = [state |-> "open", data |-> << >>, pos |-> 0]
    /\ pc' = "write RIFF"
    /\ UNCHANGED <<saved, dir, frame_files, frames, writes, raised, simVars,
                   bmpVars>>

\* One avi.write(data).
DoWrite(at, data, then) ==
    /\ pc = at
    /\ avi' = Write(avi, data)
    /\ writes' = Append(writes, WriteRecord(avi, data))
    /\ pc' = then
    /\ UNCHANGED <<saved, dir, frame_files, frames, raised, simVars, bmpVars>>

\* Lines 223-225.
WriteRiff == DoWrite("write RIFF", Fourcc_RIFF, "write placeholder")

WritePlaceholder == DoWrite("write placeholder", LE32(0), "write AVI")

WriteAviTag == DoWrite("write AVI", Fourcc_AVI, "write hdrl")

\* Lines 228, 231, 234.
WriteHdrl == DoWrite("write hdrl", HdrlList(Len(frames)), "write movi")

WriteMovi == DoWrite("write movi", MoviChunk(frames), "write idx1")

WriteIdx1 == DoWrite("write idx1", Idx1Chunk(frames), "patch")

\* Lines 237-239: tell, seek(4), write the size; the with block closes the file.
PatchSize ==
    /\ pc = "patch"
    /\ LET file_size == RiffSize(avi.pos)
           at4 == [avi EXCEPT !.pos = 4]
       IN  /\ avi' = [Write(at4, LE32(file_size)) EXCEPT !.state = "closed"]
           /\ writes' = Append(writes, WriteRecord(at4, LE32(file_size)))
    /\ pc' = "done"
    /\ UNCHANGED <<saved, dir, frame_files, frames, raised, simVars, bmpVars>>

NextAvi ==
    \/ ListFrames
    \/ ReadFrames
    \/ OpenAvi
    \/ WriteRiff
    \/ WritePlaceholder
    \/ WriteAviTag
    \/ WriteHdrl
    \/ WriteMovi
    \/ WriteIdx1
    \/ PatchSize

\* Bound of the model: the frames in the directory.
MaxFrames == 3

\* A 24-bit BMP file of any size, laid out as save_frame_as_bmp lays its own.
BmpImage(width, height, data) ==
    BmpHeader(width, height) \o BmpRows(data, width, height)

\* A buffer of one colour.
Filled(width, height, colour) == Flatten([k \in 1..(width * height) |-> colour])

\* The files a directory of the model holds under a .bmp name: frames that
\* save_frame_as_bmp wrote, BMP images of other sizes (1 x 1, 2 x 1), and a
\* file that is no BMP file.
FrameFiles ==
    { save_frame_as_bmp(Filled(ImageSide, ImageSide, c)) :
        c \in { <<255, 255, 255>>, <<255, 0, 0>> } }
    \cup { BmpImage(1, 1, Filled(1, 1, c)) :
        c \in { <<255, 255, 255>>, <<255, 0, 0>> } }
    \cup { BmpImage(2, 1, Filled(2, 1, <<255, 0, 0>>)) }
    \cup { << 0, 0 >> }

\* The directory after n frames were saved, frame k holding files[k], with a
\* file beside them that is no frame.
Directory(numbers, files) ==
    [name \in { FrameFileName(numbers[k]) : k \in 1..Len(numbers) }
              \cup { NotesTxt } |->
        IF name = NotesTxt THEN << 104, 105 >>
        ELSE files[CHOOSE k \in 1..Len(numbers) :
                       FrameFileName(numbers[k]) = name]]

InitAvi ==
    /\ \E n \in 0..MaxFrames :
         /\ saved = [k \in 1..n |-> k]
         /\ \E files \in [1..n -> FrameFiles] : dir = Directory(saved, files)
    /\ frame_files = << >>
    /\ frames = << >>
    /\ avi = NoFile
    /\ writes = << >>
    /\ raised = ""
    /\ pc = "start"
    /\ SimIdle
    /\ BmpIdle

SpecAvi == InitAvi /\ [][NextAvi]_vars

\* Bound of the model: the decimal digits of the largest frame numbers.
MaxDigits == 5

\* Frame numbers around every power of ten up to MaxDigits digits.
FrameNumbers ==
    { n \in UNION { { 10^k - 1, 10^k, 10^k + 1, 2 * 10^k } :
                     k \in 0..(MaxDigits - 1) } : n >= 1 }

\* Two frames of one run of the simulation, the earlier one white and the later
\* one blue, each saved under the name save_frame_as_bmp gives its number.
\* (The number of frames is configuration: NUM_FRAMES, 1000 as shipped.)
InitOrder ==
    /\ \E a, b \in FrameNumbers :
         /\ a < b
         /\ saved = << a, b >>
    /\ dir = Directory(saved, << BmpImage(1, 1, <<255, 255, 255>>),
                                 BmpImage(1, 1, <<255, 0, 0>>) >>)
    /\ frame_files = << >>
    /\ frames = << >>
    /\ avi = NoFile
    /\ writes = << >>
    /\ raised = ""
    /\ pc = "start"
    /\ SimIdle
    /\ BmpIdle

SpecOrder == InitOrder /\ [][NextAvi]_vars

-----------------------------------------------------------------------------
(* The simulation: main() of particles.py.                                 *)

\* Bounds of the model.  The source simulates NUM_PARTICLES = 30 particles
\* for NUM_FRAMES = 1000 frames.
NumParticles == 2

MaxSteps == 3

\* random.uniform(-1, 1): the velocities k / VelSteps, -VelSteps <= k <= VelSteps.
VelSteps == 1

Velocities == { (k * ONE) \div VelSteps : k \in -VelSteps..VelSteps }

\* random.uniform(PARTICLE_RADIUS, BOX_SIZE - PARTICLE_RADIUS): the two ends of
\* the range and points near the lower one.
SimX == { Radius, Fx(8), Fx(14), Box - Radius }

SimY == { Radius, Fx(8) }

InBox(p) ==
    /\ Radius <= p.x /\ p.x <= Box - Radius
    /\ Radius <= p.y /\ p.y <= Box - Radius

\* initialize_particles()
InitialParticles ==
    [1..NumParticles ->
        [x : SimX, y : SimY, vx : Velocities, vy : Velocities]]

\* The particles start on distinct points: two draws of random.uniform do not
\* coincide.  They may start overlapping, as in the source.
DistinctCentres(ps) ==
    \A i, j \in DOMAIN ps :
        i # j => ps[i].x # ps[j].x \/ ps[i].y # ps[j].y

InitSim ==
    /\ particles \in { ps \in InitialParticles : DistinctCentres(ps) }
    /\ prev = particles
    /\ frame_num = 0
    /\ angle = << >>
    /\ BmpIdle
    /\ AviIdle
    /\ pc = "idle"

\* One iteration of the loop of main(): every particle moves and meets the
\* walls, then the pairs collide.  (The frame the iteration renders and saves
\* is a function of the particles that the simulation never reads back; the
\* frames are modelled with the codec.)
MainLoopIteration ==
    /\ frame_num < MaxSteps
    /\ \E angs \in AngleChoices(NumParticles) :
         LET moved == [i \in 1..NumParticles |->
                          handle_wall_collisions(update_position(particles[i]))]
         IN  /\ particles' = handle_particle_collisions(moved, angs)
             /\ angle' = DrawnAngles(moved, angs)
    /\ prev' = particles
    /\ frame_num' = frame_num + 1
    /\ UNCHANGED <<bmpVars, pc, aviVars>>

NextSim == MainLoopIteration

SpecSim == InitSim /\ [][NextSim]_vars

-----------------------------------------------------------------------------
(* One pass of handle_particle_collisions over a pair of particles.        *)

\* The offsets p2 - p1 whose length is a whole number: along an axis, and the
\* 3-4-5 and 6-8-10 triangles.  Lengths 1..9 overlap, length 10 touches, and
\* the zero offset puts both centres on one point.
Offsets ==
    { <<0, 0>> }
    \cup { <<0, r>> : r \in (-10..10) \ {0} }
    \cup { <<r, 0>> : r \in (-10..10) \ {0} }
    \cup { <<a * 3, b * 4>> : a \in {-1, 1}, b \in {-1, 1} }
    \cup { <<a * 4, b * 3>> : a \in {-1, 1}, b \in {-1, 1} }
    \cup { <<a * 6, b * 8>> : a \in {-1, 1}, b \in {-1, 1} }

PairBases == { <<10, 10>>, <<100, 100>> }

PairInputs ==
    { << Particle(Fx(b[1]), Fx(b[2]), v1[1], v1[2]),
         Particle(Fx(b[1] + o[1]), Fx(b[2] + o[2]), v2[1], v2[2]) >> :
        b \in PairBases, o \in Offsets,
        v1 \in Velocities \X Velocities, v2 \in Velocities \X Velocities }

InitPair ==
    /\ particles \in { ps \in PairInputs : InBox(ps[1]) /\ InBox(ps[2]) }
    /\ prev = particles
    /\ frame_num = 0
    /\ angle = << >>
    /\ BmpIdle
    /\ AviIdle
    /\ pc = "idle"

CollisionPass ==
    /\ frame_num = 0
    /\ \E angs \in AngleChoices(2) :
         /\ particles' = handle_particle_collisions(particles, angs)
         /\ angle' = DrawnAngles(particles, angs)
    /\ prev' = particles
    /\ frame_num' = 1
    /\ UNCHANGED <<bmpVars, pc, aviVars>>

NextPair == CollisionPass

SpecPair == InitPair /\ [][NextPair]_vars

-----------------------------------------------------------------------------
(* Properties of the particle engine.                                      *)

\* C1.  After every completed simulation step each particle's x and y lie in
\* [PARTICLE_RADIUS, BOX_SIZE - PARTICLE_RADIUS], for every start inside that
\* range.
C1_PositionsStayInBox ==
    \A i \in 1..NumParticles : InBox(particles[i])

\* What the pair of SpecPair looked like before the pass, computed from the
\* state alone, in integers, without the normal of the model.
PrevDx == prev[1].x - prev[2].x

PrevDy == prev[1].y - prev[2].y

PrevDvx == prev[1].vx - prev[2].vx

PrevDvy == prev[1].vy - prev[2].vy

PrevDist2 == PrevDx * PrevDx + PrevDy * PrevDy

PassDone == frame_num = 1

PrevOverlapping == PrevDist2 < (2 * Radius) * (2 * Radius)

PrevDistinct == PrevDist2 > 0

\* The direction of the collision normal: the line of centres, or the drawn
\* angle when the centres coincide.
PrevDirX == IF PrevDistinct THEN PrevDx ELSE angle[1][1]

PrevDirY == IF PrevDistinct THEN PrevDy ELSE angle[1][2]

\* The sign of this is the sign of the relative velocity's projection on the
\* normal.
PrevProjection == PrevDvx * PrevDirX + PrevDvy * PrevDirY

\* A collision response was applied: the pair overlapped and was not skipped.
Responded == PassDone /\ PrevOverlapping /\ PrevProjection <= 0

Energy(ps) ==
    ps[1].vx * ps[1].vx + ps[1].vy * ps[1].vy
    + ps[2].vx * ps[2].vx + ps[2].vy * ps[2].vy

MomentumKept ==
    /\ particles[1].vx + particles[2].vx = prev[1].vx + prev[2].vx
    /\ particles[1].vy + particles[2].vy = prev[1].vy + prev[2].vy

\* 0.01, in the unit of a squared velocity.
EnergyTolerance == ONE

EnergyKept == Abs(Energy(particles) - Energy(prev)) <= EnergyTolerance

\* C3.  Every collision response keeps the sum of the two velocity vectors and,
\* within tolerance, the combined kinetic energy.  (No wall is met in a pass
\* of SpecPair.)
C3_ResponseConserves ==
    Responded => MomentumKept /\ EnergyKept

\* The same for the pairs whose centres are distinct; it holds, so the
\* responses that break C3 are those of the zero-distance branch.
C3_ResponseConservesIfDistinct ==
    Responded /\ PrevDistinct => MomentumKept /\ EnergyKept

\* C8.  Two particles closer than 2 * PARTICLE_RADIUS (centres distinct) that
\* approach each other: one pass exchanges their velocity components along the
\* line of centres, keeps the components across it, and moves them apart
\* along that line to a separation of exactly 2 * PARTICLE_RADIUS.
PrevApproaching == PrevDistinct /\ PrevOverlapping /\ PrevProjection < 0

Along(v) == v.vx * PrevDx + v.vy * PrevDy

Across(v) == v.vx * PrevDy - v.vy * PrevDx

NowDx == particles[1].x - particles[2].x

NowDy == particles[1].y - particles[2].y

SeparatedAlongLine ==
    /\ NowDx * NowDx + NowDy * NowDy = (2 * Radius) * (2 * Radius)
    /\ NowDx * PrevDy - NowDy * PrevDx = 0
    /\ NowDx * PrevDx + NowDy * PrevDy > 0
    \* each particle moved by the same amount, in opposite directions
    /\ particles[1].x - prev[1].x = prev[2].x - particles[2].x
    /\ particles[1].y - prev[1].y = prev[2].y - particles[2].y

C8_ExchangeAndSeparate ==
    PassDone /\ PrevApproaching =>
        /\ Along(particles[1]) = Along(prev[2])
        /\ Along(particles[2]) = Along(prev[1])
        /\ Across(particles[1]) = Across(prev[1])
        /\ Across(particles[2]) = Across(prev[2])
        /\ SeparatedAlongLine

\* The scenario of the specification: (10, 10) and (10, 13) with velocities
\* (0, 1) and (0, -1) end with velocities (0, -1) and (0, 1), 10 apart.
C8_Witness ==
    /\ PassDone
    /\ prev = << Particle(Fx(10), Fx(10), 0, ONE),
                 Particle(Fx(10), Fx(13), 0, -ONE) >>
    /\ particles = << Particle(Fx(10), Fx(10) - 350, 0, -ONE),
                      Particle(Fx(10), Fx(13) + 350, 0, ONE) >>

VelocitiesKept ==
    \A i \in 1..2 :
        particles[i].vx = prev[i].vx /\ particles[i].vy = prev[i].vy

\* C9 as claimed.  An overlapping pair whose projection is >= 0 is skipped:
\* no velocity changes and no position is corrected.
C9_SkippedWhenNotApproaching ==
    PassDone /\ PrevOverlapping /\ PrevProjection >= 0 => particles = prev

\* C9 as amended.  An overlapping pair whose projection is > 0 is skipped: no
\* velocity changes and no position is corrected.  At a projection of exactly
\* 0 no velocity changes, but the positions are corrected: each particle is
\* moved, by opposite amounts.
C9_SkippedWhenSeparating ==
    /\ PassDone /\ PrevOverlapping /\ PrevProjection > 0 => particles = prev
    /\ PassDone /\ PrevOverlapping /\ PrevProjection = 0 =>
          /\ VelocitiesKept
          /\ \A i \in 1..2 :
                particles[i].x # prev[i].x \/ particles[i].y # prev[i].y
          /\ particles[1].x - prev[1].x = prev[2].x - particles[2].x
          /\ particles[1].y - prev[1].y = prev[2].y - particles[2].y

\* Both cases of C9 happen: a separating pair left alone, and a pair at
\* projection 0 pushed apart.
C9_Witness ==
    /\ PassDone
    /\ prev = << Particle(Fx(10), Fx(10), ONE, 0),
                 Particle(Fx(10), Fx(13), ONE, 0) >>
    /\ particles = << Particle(Fx(10), Fx(10) - 350, ONE, 0),
                      Particle(Fx(10), Fx(13) + 350, ONE, 0) >>

-----------------------------------------------------------------------------
(* Properties of the bitmap codec.                                         *)

\* C2.  Reading back the file save_frame_as_bmp wrote returns the pixel buffer
\* that was written, byte for byte.
C2_RoundTripIdentity ==
    pc = "decoded" => pixel_data = [data |-> frame_data]

\* What does hold: the file is read without error and the buffer comes back
\* with the first and third byte of every pixel exchanged, rows in order.
SwapChannels(data) ==
    [k \in 1..Len(data) |->
        CASE k % 3 = 1 -> data[k + 2]
          [] k % 3 = 0 -> data[k - 2]
          [] OTHER -> data[k]]

C2_RoundTripSwapsChannels ==
    pc = "decoded" => pixel_data = [data |-> SwapChannels(frame_data)]

-----------------------------------------------------------------------------
(* Properties of the muxer, read off the bytes of the output file.         *)

\* The layout of the file, followed through the sizes written in it.
HdrlSize == U32(avi.data, 16)

MoviListAt == 20 + HdrlSize

MoviSize == U32(avi.data, MoviListAt + 4)

MoviPayloadAt == MoviListAt + 12

Idx1At == MoviListAt + 8 + MoviSize

IdxCount == U32(avi.data, Idx1At + 4) \div 12

IdxTag(k) == Slice(avi.data, Idx1At + 12 * k - 4, Idx1At + 12 * k)

IdxOffset(k) == U32(avi.data, Idx1At + 12 * k + 4)

\* The length of a chunk of n payload bytes, padded to an even length.
PaddedChunkLen(n) == 8 + n + ((8 + n) % 2)

\* The sum of the padded chunk lengths of the first k frames.
RECURSIVE PaddedBefore(_)
PaddedBefore(k) ==
    IF k = 0 THEN 0 ELSE PaddedBefore(k - 1) + PaddedChunkLen(Len(frames[k]))

\* The bytes of the file where the k-th index entry says a chunk starts.
ChunkAtIndex(k) ==
    Slice(avi.data, MoviPayloadAt + IdxOffset(k),
          MoviPayloadAt + IdxOffset(k) + 8 + Len(frames[k]))

\* C4.  When create_avi has finished, the size field at offset 4 is the length
\* of the file minus 8, and the patch of the placeholder is the only write that
\* replaced bytes already written.
C4_SizeFieldPatchedOnce ==
    pc = "done" =>
        /\ U32(avi.data, 4) = Len(avi.data) - 8
        /\ \A k \in 1..(Len(writes) - 1) : writes[k].over = 0
        /\ writes[Len(writes)] = [at |-> 4, len |-> 4, over |-> 4]

\* A finished file of 290 bytes (a 1 x 1 and a 2 x 1 frame) with 282 in its
\* size field, written over the placeholder.
C4_Witness ==
    /\ pc = "done"
    /\ Len(frames) = 2
    /\ Len(avi.data) = 290
    /\ Slice(avi.data, 4, 8) = << 26, 1, 0, 0 >>
    /\ writes[2] = [at |-> 4, len |-> 4, over |-> 0]
    /\ writes[7] = [at |-> 4, len |-> 4, over |-> 4]

\* C5.  idx1 holds one entry per input frame, in input order; the offsets
\* increase strictly; the k-th offset is the sum of the padded chunk lengths
\* of the frames before it, and the k-th frame's chunk starts there in the
\* movi payload.
C5_IndexMatchesChunks ==
    pc = "done" =>
        /\ U32(avi.data, Idx1At + 4) = 12 * Len(frame_files)
        /\ IdxCount = Len(frames)
        /\ Len(avi.data) = Idx1At + 8 + 12 * IdxCount
        /\ \A k \in 1..IdxCount :
             /\ IdxTag(k) = Fourcc_00dc
             /\ IdxOffset(k) = PaddedBefore(k - 1)
             /\ k > 1 => IdxOffset(k - 1) < IdxOffset(k)
             /\ ChunkAtIndex(k) = Fourcc_00dc \o LE32(Len(frames[k])) \o frames[k]
             /\ frames[k] = read_bmp(dir[frame_files[k]]).data

\* Three frames, the first of 3 bytes (a chunk of 11 bytes, padded to 12) and
\* the second of 6: the offsets are 0, 12 and 26.
C5_Witness ==
    /\ pc = "done"
    /\ Len(frames) = 3
    /\ Len(frames[1]) = 3
    /\ Len(frames[2]) = 6
    /\ IdxOffset(1) = 0
    /\ IdxOffset(2) = 12
    /\ IdxOffset(3) = 26

\* The frames create_avi is given: the pixel data of the .bmp files that are
\* BMP files.
Decodes(name) == "data" \in DOMAIN read_bmp(dir[name])

InputEmpty == BmpNames(dir) = {}

InputSizesDiffer ==
    \E a, b \in BmpNames(dir) :
        /\ Decodes(a) /\ Decodes(b)
        /\ Len(read_bmp(dir[a]).data) # Len(read_bmp(dir[b]).data)

Rejected == raised # "" /\ avi.state = "absent"

Finished == pc \in { "done", "raised" }

\* C6.  create_avi raises an error and writes no file when there is no frame,
\* and also when two frames differ in size.
C6_RejectsEmptyAndMixed ==
    /\ InputEmpty \/ InputSizesDiffer => avi.state = "absent"
    /\ Finished /\ (InputEmpty \/ InputSizesDiffer) => Rejected

\* The half of C6 that holds: no frame, an error and no file.
C6_RejectsEmpty ==
    /\ InputEmpty => avi.state = "absent"
    /\ Finished /\ InputEmpty => Rejected

\* The geometry the headers declare.
AvihSuggestedBufferSize == U32(avi.data, 60)

AvihWidth == U32(avi.data, 64)

AvihHeight == U32(avi.data, 68)

StrfWidth == U32(avi.data, 184)

StrfHeight == U32(avi.data, 188)

\* The payload length written in the chunk the k-th index entry points to.
ChunkPayloadLen(k) == U32(avi.data, MoviPayloadAt + IdxOffset(k) + 4)

\* C10.  The width and height of the main header and of the stream format
\* describe the frames muxed: width * height * 3 is the payload length of
\* every frame chunk, and the suggested buffer size.
C10_HeadersDescribeFrames ==
    pc = "done" =>
        /\ AvihWidth = StrfWidth /\ AvihHeight = StrfHeight
        /\ AvihSuggestedBufferSize = AvihWidth * AvihHeight * 3
        /\ \A k \in 1..Len(frames) :
             /\ ChunkPayloadLen(k) = Len(frames[k])
             /\ AvihWidth * AvihHeight * 3 = ChunkPayloadLen(k)

\* What the headers do hold: 200 x 200, whatever the frames are.
C10_HeadersDeclare200 ==
    pc = "done" =>
        /\ AvihWidth = 200 /\ AvihHeight = 200
        /\ StrfWidth = 200 /\ StrfHeight = 200
        /\ AvihSuggestedBufferSize = 120000

\* C7.  The sorted file names are in the order of the frame numbers, so the
\* k-th chunk of movi holds the frame of the k-th simulation step.
C7_ChunksInSimulationOrder ==
    /\ pc \notin { "start" } =>
         frame_files = [k \in 1..Len(saved) |-> FrameFileName(saved[k])]
    /\ pc = "done" =>
         \A k \in 1..Len(saved) :
            Slice(ChunkAtIndex(k), 8, 8 + Len(frames[k]))
                = read_bmp(dir[FrameFileName(saved[k])]).data

\* The same for frame numbers of at most four digits; it holds.
C7_ChunksInOrderUpTo9999 ==
    (\A k \in 1..Len(saved) : saved[k] <= 9999) => C7_ChunksInSimulationOrder

-----------------------------------------------------------------------------
(* The zero-distance branch of handle_particle_collisions.                 *)

\* Both centres were on one point when the pass of SpecPair reached the pair.
PrevCoinciding == PassDone /\ ~PrevDistinct

\* The square of the distance particle i was moved by the pass.
Displaced2(i) ==
    (particles[i].x - prev[i].x) * (particles[i].x - prev[i].x)
    + (particles[i].y - prev[i].y) * (particles[i].y - prev[i].y)

\* C11.  Two particles at exactly zero distance: the pass completes, and the
\* normal it uses is a unit vector, so each particle is moved by at most half
\* the overlap, that is by at most PARTICLE_RADIUS.
C11_ZeroDistanceMovesAtMostRadius ==
    PrevCoinciding =>
        /\ angle[1] \in Angles
        /\ \A i \in 1..2 : Displaced2(i) <= Radius * Radius

\* What the code does instead: the pass completes with one angle drawn, and a
\* pair it responds to is moved along that angle by (overlap / 2) / distance,
\* the substituted distance dividing the unit vector once more; this is more
\* than PARTICLE_RADIUS for every angle.  A pair it skips is not moved.
C11_ZeroDistanceMovesBeyondRadius ==
    PrevCoinciding =>
        /\ angle[1] \in Angles
        /\ IF PrevProjection <= 0
           THEN /\ \A i \in 1..2 : Displaced2(i) > Radius * Radius
                /\ (particles[1].x - prev[1].x) * angle[1][2]
                     = (particles[1].y - prev[1].y) * angle[1][1]
                /\ particles[1].x - prev[1].x = prev[2].x - particles[2].x
                /\ particles[1].y - prev[1].y = prev[2].y - particles[2].y
           ELSE particles = prev

=============================================================================
